---- MODULE Spec2Model ----
(***************************************************************************)
(* PyShell: the command dispatcher (CommandProcessor.execute) and the      *)
(* file commands of backend/command_processor.py, over a model of the host *)
(* filesystem.                                                             *)
(*                                                                         *)
(* A Python str is a sequence of one-character strings; a literal of the   *)
(* source that is never taken apart is kept as one multi-character element *)
(* (f"Removed file: {x}" is <<"Removed file: ">> \o x).  A path is the     *)
(* sequence of its components below "/", each component a str.             *)
(***************************************************************************)
EXTENDS Integers, Sequences, FiniteSets, TLC

\* ---------------------------------------------------------------- bounds
\* Nodes the filesystem may hold beyond the ones present after construction.
MaxNew == 1
\* Request threads of the HTTP layer that run execute at the same time.
NumThreads == 2
\* Symbolic links the kernel follows in one path walk before ELOOP.
MaxSymlinks == 4
\* Characters of the text file given to uniq.
MaxText == 7

\* LET x == e IN F(x), with e evaluated once and x bound to its value.
Bind(e, F(_)) == CHOOSE y \in {F(x) : x \in {e}} : TRUE

\* ------------------------------------------------------------ characters
\* The characters of the model, in code-point order.
Ascii ==
  << " ", "\"", "'", ".", "/",
     "A", "B", "C", "D", "E", "F", "G", "H", "I", "J", "K", "L", "M",
     "N", "O", "P", "Q", "R", "S", "T", "U", "V", "W", "X", "Y", "Z",
     "\\", "_",
     "a", "b", "c", "d", "e", "f", "g", "h", "i", "j", "k", "l", "m",
     "n", "o", "p", "q", "r", "s", "t", "u", "v", "w", "x", "y", "z",
     "~" >>

Code(c) == CHOOSE i \in 1..Len(Ascii) : Ascii[i] = c

\* str.lower() on one character: "A".."Z" sit 28 places before "a".."z".
LowerChar(c) ==
  IF \E i \in 6..31 : Ascii[i] = c THEN Ascii[Code(c) + 28] ELSE c

\* str.lower()
Lower(s) == [i \in 1..Len(s) |-> LowerChar(s[i])]

\* str.startswith
StartsWith(s, p) == Len(p) <= Len(s) /\ SubSeq(s, 1, Len(p)) = p

\* s < t in Python's order on str
RECURSIVE StrLess(_, _)
StrLess(s, t) ==
  IF t = <<>> THEN FALSE
  ELSE IF s = <<>> THEN TRUE
  ELSE IF Head(s) = Head(t) THEN StrLess(Tail(s), Tail(t))
  ELSE Code(Head(s)) < Code(Head(t))

\* sorted(items) for a set of distinct str
RECURSIVE Sorted(_)
Sorted(S) ==
  IF S = {} THEN <<>>
  ELSE LET m == CHOOSE x \in S : \A y \in S \ {x} : StrLess(x, y)
       IN  <<m>> \o Sorted(S \ {m})

\* sep.join(items)
RECURSIVE JoinStr(_, _)
JoinStr(sep, items) ==
  IF items = <<>> THEN <<>>
  ELSE IF Len(items) = 1 THEN items[1]
  ELSE items[1] \o sep \o JoinStr(sep, Tail(items))

\* str.strip() for the whitespace of the model
RECURSIVE LStrip(_)
LStrip(s) == IF s # <<>> /\ Head(s) = " " THEN LStrip(Tail(s)) ELSE s

RECURSIVE RStrip(_)
RStrip(s) ==
  IF s # <<>> /\ s[Len(s)] = " " THEN RStrip(SubSeq(s, 1, Len(s) - 1)) ELSE s

Strip(s) == RStrip(LStrip(s))

\* ------------------------------------------------------------ shlex.split
\* shlex.shlex(s, posix=True) with whitespace_split=True and no commenters:
\* read_token's state machine, run over the whole line.  state is " " (between
\* tokens), "a" (in a word), a quote character or the escape character.
\* The result is [ok |-> TRUE, tokens |-> ...] or the ValueError it raises.
RECURSIVE Lex(_, _, _, _, _, _)
Lex(rest, state, escapedstate, token, quoted, tokens) ==
  LET Emit == IF token # <<>> \/ quoted THEN Append(tokens, token) ELSE tokens
  IN
  IF rest = <<>> THEN
    IF state \in {"'", "\""} THEN
      [ok |-> FALSE, tokens |-> <<>>, msg |-> <<"No closing quotation">>]
    ELSE IF state = "\\" THEN
      [ok |-> FALSE, tokens |-> <<>>, msg |-> <<"No escaped character">>]
    ELSE [ok |-> TRUE, tokens |-> Emit, msg |-> <<>>]
  ELSE
    LET c == Head(rest)
        r == Tail(rest)
    IN
    IF state = " " THEN
      IF c = " " THEN Lex(r, " ", escapedstate, <<>>, FALSE, Emit)
      ELSE IF c = "\\" THEN Lex(r, "\\", "a", token, quoted, tokens)
      ELSE IF c \in {"'", "\""} THEN Lex(r, c, escapedstate, token, quoted, tokens)
      ELSE Lex(r, "a", escapedstate, <<c>>, quoted, tokens)
    ELSE IF state \in {"'", "\""} THEN
      IF c = state THEN Lex(r, "a", escapedstate, token, TRUE, tokens)
      ELSE IF c = "\\" /\ state = "\"" THEN Lex(r, "\\", state, token, TRUE, tokens)
      ELSE Lex(r, state, escapedstate, Append(token, c), TRUE, tokens)
    ELSE IF state = "\\" THEN
      IF escapedstate \in {"'", "\""} /\ c # "\\" /\ c # escapedstate
      THEN Lex(r, escapedstate, escapedstate, token \o <<"\\", c>>, quoted, tokens)
      ELSE Lex(r, escapedstate, escapedstate, Append(token, c), quoted, tokens)
    ELSE \* state = "a"
      IF c = " " THEN Lex(r, " ", escapedstate, <<>>, FALSE, Emit)
      ELSE IF c \in {"'", "\""} THEN Lex(r, c, escapedstate, token, quoted, tokens)
      ELSE IF c = "\\" THEN Lex(r, "\\", "a", token, quoted, tokens)
      ELSE Lex(r, "a", escapedstate, Append(token, c), quoted, tokens)

shlex_split(s) == Lex(s, " ", " ", <<>>, FALSE, <<>>)

\* ------------------------------------------------------------------ paths
DotDot == <<".", ".">>

\* s.split(sep) for a one-character sep; cur is the piece being read
RECURSIVE SplitAt(_, _, _)
SplitAt(s, sep, cur) ==
  IF s = <<>> THEN <<cur>>
  ELSE IF Head(s) = sep THEN <<cur>> \o SplitAt(Tail(s), sep, <<>>)
  ELSE SplitAt(Tail(s), sep, Append(cur, Head(s)))

Split(s, sep) == SplitAt(s, sep, <<>>)

\* The components pathlib keeps of a str: empty ones and "." are dropped.
Parts(s) == SelectSeq(Split(s, "/"), LAMBDA c : c # <<>> /\ c # <<".">>)

\* PurePath.__truediv__: an absolute right operand replaces the left one.
PathJoin(base, s) ==
  IF s # <<>> /\ Head(s) = "/" THEN Parts(s) ELSE base \o Parts(s)

\* PurePath.parent (the root is its own parent)
Parent(p) == IF p = <<>> THEN <<>> ELSE SubSeq(p, 1, Len(p) - 1)

\* str(path) of an absolute path
RECURSIVE StrTail(_)
StrTail(p) == IF p = <<>> THEN <<>> ELSE <<"/">> \o Head(p) \o StrTail(Tail(p))

Str(p) == IF p = <<>> THEN <<"/">> ELSE StrTail(p)

\* p is q or below q, component by component
IsUnder(p, q) == Len(q) <= Len(p) /\ SubSeq(p, 1, Len(q)) = q

\* str(p.relative_to(q)) when p is under q
RelStr(p, q) ==
  IF p = q THEN <<".">>
  ELSE JoinStr(<<"/">>, SubSeq(p, Len(q) + 1, Len(p)))

\* ------------------------------------------------------- host filesystem
\* The filesystem is a function from the absolute paths that exist to their
\* nodes.  A symbolic link holds its target as the components of the
\* absolute path it was given; nothing is stored below a link.
DirNode == [kind |-> "dir", target |-> <<>>, data |-> <<>>]
FileNode == [kind |-> "file", target |-> <<>>, data |-> <<>>]
LinkNode(t) == [kind |-> "link", target |-> t, data |-> <<>>]
\* A regular file that holds text.
FileWith(text) == [kind |-> "file", target |-> <<>>, data |-> text]

\* The entries directly inside the directory at the real path d.
Children(f, d) == {p \in DOMAIN f : p # <<>> /\ Parent(p) = d}

\* The nodes at or below the real path d.
Subtree(f, d) == {p \in DOMAIN f : IsUnder(p, d)}

\* The kernel's path walk from the real directory cur over the components
\* rest: ".." steps up, a link met before the end (or at the end, when
\* follow) is replaced by its target, and more than MaxSymlinks links give
\* ELOOP.  st is "ok" (at is the node reached), "new" (the last component,
\* name, is absent from the existing directory at) or an errno.
RECURSIVE Walk(_, _, _, _, _)
Walk(f, cur, rest, follow, fuel) ==
  IF rest = <<>> THEN [st |-> "ok", at |-> cur, name |-> <<>>]
  ELSE IF f[cur].kind # "dir" THEN [st |-> "ENOTDIR", at |-> cur, name |-> <<>>]
  ELSE
    LET c == Head(rest)
        r == Tail(rest)
        nxt == Append(cur, c)
    IN
    IF c = DotDot THEN Walk(f, Parent(cur), r, follow, fuel)
    ELSE IF nxt \notin DOMAIN f THEN
      IF r = <<>> THEN [st |-> "new", at |-> cur, name |-> c]
      ELSE [st |-> "ENOENT", at |-> cur, name |-> c]
    ELSE IF f[nxt].kind = "link" /\ (r # <<>> \/ follow) THEN
      IF fuel = 0 THEN [st |-> "ELOOP", at |-> nxt, name |-> <<>>]
      ELSE Walk(f, <<>>, f[nxt].target \o r, follow, fuel - 1)
    ELSE Walk(f, nxt, r, follow, fuel)

\* os.stat / os.lstat
Stat(f, p) == Walk(f, <<>>, p, TRUE, MaxSymlinks)
LStat(f, p) == Walk(f, <<>>, p, FALSE, MaxSymlinks)

\* Path.exists / is_dir / is_file / is_symlink: an OSError reads as False.
exists(f, p) == Stat(f, p).st = "ok"
is_dir(f, p) == Stat(f, p).st = "ok" /\ f[Stat(f, p).at].kind = "dir"
is_file(f, p) == Stat(f, p).st = "ok" /\ f[Stat(f, p).at].kind = "file"
is_link(f, p) == LStat(f, p).st = "ok" /\ f[LStat(f, p).at].kind = "link"

\* str(OSError): "[Errno n] strerror: 'path'"
StrError(e) ==
  CASE e = "ENOENT" -> "[Errno 2] No such file or directory: '"
    [] e = "EBUSY" -> "[Errno 16] Device or resource busy: '"
    [] e = "EEXIST" -> "[Errno 17] File exists: '"
    [] e = "ENOTDIR" -> "[Errno 20] Not a directory: '"
    [] e = "EISDIR" -> "[Errno 21] Is a directory: '"
    [] e = "EINVAL" -> "[Errno 22] Invalid argument: '"
    [] e = "ENOTEMPTY" -> "[Errno 39] Directory not empty: '"
    [] e = "ELOOP" -> "[Errno 40] Too many levels of symbolic links: '"
    [] OTHER -> "[Errno ?] '"

OSErrorStr(e, p) == <<StrError(e)>> \o Str(p) \o <<"'">>

\* The result of a system call: the filesystem it leaves, and "" or the
\* error with the message str(e) of the exception it raises.
Ok(f) == [fs |-> f, err |-> "", msg |-> <<>>]
Fail(f, e, p) == [fs |-> f, err |-> e, msg |-> OSErrorStr(e, p)]
WalkErr(w) == IF w.st = "new" THEN "ENOENT" ELSE w.st

\* f with the node n put at path p / with the paths of S taken away
Put(f, p, n) == [q \in DOMAIN f \cup {p} |-> IF q = p THEN n ELSE f[q]]
Drop(f, S) == [q \in DOMAIN f \ S |-> f[q]]

\* os.mkdir(p)
os_mkdir(f, p) ==
  LET w == LStat(f, p) IN
  IF w.st = "ok" THEN Fail(f, "EEXIST", p)
  ELSE IF w.st = "new" THEN Ok(Put(f, Append(w.at, w.name), DirNode))
  ELSE Fail(f, w.st, p)

\* pathlib.Path.mkdir(parents, exist_ok): os.mkdir; on FileNotFoundError the
\* parent is made (parents=True, exist_ok=True) and os.mkdir is tried again;
\* another OSError is swallowed only when exist_ok and the path is a
\* directory.  What an earlier step created stays when a later one fails.
RECURSIVE path_mkdir(_, _, _, _)
path_mkdir(f, p, parents, exist_ok) ==
  LET r == os_mkdir(f, p) IN
  IF r.err = "" THEN r
  ELSE IF r.err = "ENOENT" THEN
    IF ~parents \/ p = <<>> THEN r
    ELSE LET up == path_mkdir(f, Parent(p), TRUE, TRUE) IN
         IF up.err # "" THEN up ELSE path_mkdir(up.fs, p, FALSE, exist_ok)
  ELSE IF exist_ok /\ is_dir(f, p) THEN Ok(f)
  ELSE r

\* os.rmdir(p) as shutil.rmtree would do it: whatever is below goes too.
os_rmdir_tree(f, p) ==
  LET w == LStat(f, p) IN
  IF w.st \notin {"ok", "new"} THEN Fail(f, w.st, p)
  ELSE IF w.st = "new" THEN Fail(f, "ENOENT", p)
  ELSE IF p # <<>> /\ p[Len(p)] = DotDot THEN Fail(f, "ENOTEMPTY", p)
  ELSE IF w.at = <<>> THEN Fail(f, "EBUSY", p)
  ELSE IF f[w.at].kind # "dir" THEN Fail(f, "ENOTDIR", p)
  ELSE Ok(Drop(f, Subtree(f, w.at)))

\* os.rmdir(p)
os_rmdir(f, p) ==
  LET w == LStat(f, p) IN
  IF w.st \notin {"ok", "new"} THEN Fail(f, w.st, p)
  ELSE IF w.st = "new" THEN Fail(f, "ENOENT", p)
  ELSE IF p # <<>> /\ p[Len(p)] = DotDot THEN Fail(f, "ENOTEMPTY", p)
  ELSE IF w.at = <<>> THEN Fail(f, "EBUSY", p)
  ELSE IF f[w.at].kind # "dir" THEN Fail(f, "ENOTDIR", p)
  ELSE IF Children(f, w.at) # {} THEN Fail(f, "ENOTEMPTY", p)
  ELSE Ok(Drop(f, {w.at}))

\* os.unlink(p)
os_unlink(f, p) ==
  LET w == LStat(f, p) IN
  IF w.st # "ok" THEN Fail(f, WalkErr(w), p)
  ELSE IF f[w.at].kind = "dir" THEN Fail(f, "EISDIR", p)
  ELSE Ok(Drop(f, {w.at}))

\* os.symlink(target, p)
os_symlink(f, target, p) ==
  LET w == LStat(f, p) IN
  IF w.st = "ok" THEN
    [fs |-> f, err |-> "EEXIST",
     msg |-> <<"[Errno 17] File exists: '">> \o Str(target) \o <<"' -> '">>
             \o Str(p) \o <<"'">>]
  ELSE IF w.st = "new" THEN Ok(Put(f, Append(w.at, w.name), LinkNode(target)))
  ELSE Fail(f, w.st, p)

\* open(p, "w") and write(text): creates the file when absent, through a
\* dangling link too; what the file held is replaced.
write_file(f, p, text) ==
  LET w == Stat(f, p) IN
  IF w.st = "new" THEN Ok(Put(f, Append(w.at, w.name), FileWith(text)))
  ELSE IF w.st # "ok" THEN Fail(f, w.st, p)
  ELSE IF f[w.at].kind = "dir" THEN Fail(f, "EISDIR", p)
  ELSE Ok(Put(f, w.at, FileWith(text)))

\* open(p, "w") closed at once
open_w(f, p) == write_file(f, p, <<>>)

\* Path.read_text() of a regular file
read_text(f, p) == f[Stat(f, p).at].data

\* pathlib.Path.touch(exist_ok=True): os.utime, and open(O_CREAT) when that
\* fails.
path_touch(f, p) == IF exists(f, p) THEN Ok(f) ELSE open_w(f, p)

\* os.listdir(p): ok and the set of names, or the error.
os_listdir(f, p) ==
  LET w == Stat(f, p) IN
  IF w.st # "ok" THEN [err |-> WalkErr(w), items |-> {}]
  ELSE IF f[w.at].kind # "dir" THEN [err |-> "ENOTDIR", items |-> {}]
  ELSE [err |-> "", items |-> {q[Len(q)] : q \in Children(f, w.at)}]

\* The paths of S, which lie at or below from, moved below to.
Rebase(q, from, to) == to \o SubSeq(q, Len(from) + 1, Len(q))

\* f with the subtree at the real path sp moved to the real path dp
\* (whatever single node was at dp is replaced).
MoveTree(f, sp, dp) ==
  LET moved == Subtree(f, sp)
      kept == (DOMAIN f \ moved) \ {dp}
      dest == {Rebase(q, sp, dp) : q \in moved}
  IN [q \in kept \cup dest |->
        IF q \in dest THEN f[Rebase(q, dp, sp)] ELSE f[q]]

\* g with a copy of the subtree at the real path sp put at the real path dp
\* in g; the subtree is read in f, the filesystem as it was listed.
CopyTree(g, f, sp, dp) ==
  LET dest == {Rebase(q, sp, dp) : q \in Subtree(f, sp)}
  IN [q \in DOMAIN g \cup dest |->
        IF q \in dest THEN f[Rebase(q, dp, sp)] ELSE g[q]]

LastIsDots(p) == p = <<>> \/ p[Len(p)] = DotDot

\* os.path.abspath of an absolute path: ".." folded away as written
RECURSIVE NormInto(_, _)
NormInto(acc, p) ==
  IF p = <<>> THEN acc
  ELSE IF Head(p) = DotDot THEN NormInto(Parent(acc), Tail(p))
  ELSE NormInto(Append(acc, Head(p)), Tail(p))

abspath(p) == NormInto(<<>>, p)

\* str(p) with a separator at its end
WithSep(p) == IF p = <<>> THEN <<"/">> ELSE Str(p) \o <<"/">>

\* shutil._destinsrc
destinsrc(src, dst) == StartsWith(WithSep(abspath(dst)), WithSep(abspath(src)))

\* os.rename(src, dst): neither last component is followed.
os_rename(f, src, dst) ==
  LET ws == LStat(f, src)
      wd == LStat(f, dst)
      sp == ws.at
      dp == IF wd.st = "ok" THEN wd.at ELSE Append(wd.at, wd.name)
  IN
  IF ws.st # "ok" THEN Fail(f, WalkErr(ws), src)
  ELSE IF wd.st \notin {"ok", "new"} THEN Fail(f, wd.st, dst)
  ELSE IF LastIsDots(src) \/ LastIsDots(dst) THEN Fail(f, "EBUSY", src)
  ELSE IF sp = dp THEN Ok(f)
  ELSE IF f[sp].kind = "dir" THEN
    IF IsUnder(dp, sp) THEN Fail(f, "EINVAL", src)
    ELSE IF wd.st = "ok" /\ f[dp].kind # "dir" THEN Fail(f, "ENOTDIR", src)
    ELSE IF wd.st = "ok" /\ Children(f, dp) # {} THEN Fail(f, "ENOTEMPTY", src)
    ELSE Ok(MoveTree(f, sp, dp))
  ELSE IF wd.st = "ok" /\ f[dp].kind = "dir" THEN Fail(f, "EISDIR", src)
  ELSE Ok(MoveTree(f, sp, dp))

\* os.path.samefile under shutil._samefile: an OSError reads as False.
samefile(f, a, b) == exists(f, a) /\ exists(f, b) /\ Stat(f, a).at = Stat(f, b).at

\* A step of a library routine this model does not follow (a copy that would
\* descend into itself, a tree removed through a ".." path): commands that
\* reach one are left out of the behaviours.
Unmodelled(f) == [fs |-> f, err |-> "UNMODELLED", msg |-> <<>>]

\* shutil.move(src, dst): into dst when dst is a directory, else onto dst;
\* os.rename, and when that fails the copy-and-delete fallbacks.
shutil_move(f, src, dst) ==
  LET same == is_dir(f, dst) /\ samefile(f, src, dst)
      into == is_dir(f, dst) /\ ~same
  IN
  Bind(IF into /\ src # <<>> THEN Append(dst, src[Len(src)]) ELSE dst, LAMBDA real_dst :
  Bind(os_rename(f, src, real_dst), LAMBDA r :
  IF same THEN r
  ELSE IF into /\ exists(f, real_dst) THEN
    [fs |-> f, err |-> "Error",
     msg |-> <<"Destination path '">> \o Str(real_dst) \o <<"' already exists">>]
  ELSE IF r.err = "" THEN r
  ELSE IF is_link(f, src) \/ ~is_dir(f, src) THEN
    \* os.symlink / copy2 onto real_dst fail as os.rename did
    r
  ELSE IF destinsrc(src, dst) THEN
    [fs |-> f, err |-> "Error",
     msg |-> <<"Cannot move a directory '">> \o Str(src) \o <<"' into itself '">>
             \o Str(dst) \o <<"'.">>]
  ELSE IF r.err = "ENOENT" /\ ~LastIsDots(src) THEN
    \* copytree makes the missing parents of real_dst, copies, then rmtree(src)
    LET up == path_mkdir(f, Parent(real_dst), TRUE, TRUE) IN
    IF up.err # "" THEN up
    ELSE IF os_rename(up.fs, src, real_dst).err = ""
      THEN os_rename(up.fs, src, real_dst)
      ELSE Unmodelled(f)
  ELSE IF r.err = "ENOTDIR" /\ LStat(f, real_dst).st = "ok" THEN
    \* copytree's os.makedirs(real_dst) finds it there
    Fail(f, "EEXIST", real_dst)
  ELSE Unmodelled(f)))

\* shutil.copytree(src, dst) for a directory src: os.makedirs(dst), then the
\* entries of src, listed before dst was made, are copied below it.
shutil_copytree(f, src, dst) ==
  LET sp == Stat(f, src).at
      mk == path_mkdir(f, dst, TRUE, FALSE)
      dp == Stat(mk.fs, dst).at
  IN
  IF mk.err # "" THEN mk
  ELSE IF \E q \in Subtree(f, sp) : f[q].kind = "link" THEN Unmodelled(f)
  ELSE IF \E q \in Subtree(f, sp) : q # sp /\ IsUnder(dp, q) THEN Unmodelled(f)
  ELSE Ok(CopyTree(mk.fs, f, sp, dp))

\* shutil.copy(src, dst) for a src that is no directory: into dst when dst
\* is a directory; src is opened first, then dst for writing.
shutil_copy(f, src, dst) ==
  LET real_dst == IF is_dir(f, dst) /\ src # <<>>
                  THEN Append(dst, src[Len(src)]) ELSE dst
  IN
  IF samefile(f, src, real_dst) THEN
    [fs |-> f, err |-> "SameFileError",
     msg |-> <<"'">> \o Str(src) \o <<"' and '">> \o Str(real_dst)
             \o <<"' are the same file">>]
  ELSE IF Stat(f, src).st # "ok" THEN Fail(f, WalkErr(Stat(f, src)), src)
  ELSE write_file(f, real_dst, read_text(f, src))

\* os.path.realpath(strict=False): ".." drops the last component of what is
\* resolved so far, a link is replaced by the real path of its target, and
\* a component that does not exist is kept as written.  seen holds the links
\* being resolved; meeting one again ends the walk with ok = FALSE.
RECURSIVE joinrealpath(_, _, _, _)
joinrealpath(f, path, rest, seen) ==
  IF rest = <<>> THEN [path |-> path, ok |-> TRUE]
  ELSE
    LET name == Head(rest)
        newpath == Append(path, name)
    IN
    IF name = DotDot THEN joinrealpath(f, Parent(path), Tail(rest), seen)
    ELSE IF ~(newpath \in DOMAIN f /\ f[newpath].kind = "link") THEN
      joinrealpath(f, newpath, Tail(rest), seen)
    ELSE IF newpath \in seen THEN [path |-> newpath \o Tail(rest), ok |-> FALSE]
    ELSE
      LET r == joinrealpath(f, <<>>, f[newpath].target, seen \cup {newpath}) IN
      IF ~r.ok THEN [path |-> r.path \o Tail(rest), ok |-> FALSE]
      ELSE joinrealpath(f, r.path, Tail(rest), seen)

\* pathlib.Path.resolve(): realpath, then a stat() that turns a symlink loop
\* into RuntimeError (Python up to 3.12).
resolve(f, p) == joinrealpath(f, <<>>, p, {})

\* --------------------------------------------------------- the processor
\* The words of the command lines, as str.
W_cd == <<"c", "d">>
W_ls == <<"l", "s">>
W_pwd == <<"p", "w", "d">>
W_mkdir == <<"m", "k", "d", "i", "r">>
W_rm == <<"r", "m">>
W_rmdir == <<"r", "m", "d", "i", "r">>
W_touch == <<"t", "o", "u", "c", "h">>
W_echo == <<"e", "c", "h", "o">>
W_clear == <<"c", "l", "e", "a", "r">>
W_mv == <<"m", "v">>
W_cp == <<"c", "p">>
W_ln == <<"l", "n">>
W_uniq == <<"u", "n", "i", "q">>
W_home == <<"h", "o", "m", "e">>
W_tilde == <<"~">>

\* commands_list.COMMANDS: the names of the registry.
COMMANDS ==
  {
    <<"l", "s">>, <<"c", "d">>, <<"p", "w", "d">>,
    <<"m", "k", "d", "i", "r">>, <<"r", "m">>, <<"r", "m", "d", "i", "r">>,
    <<"t", "o", "u", "c", "h">>, <<"c", "a", "t">>, <<"e", "c", "h", "o">>,
    <<"m", "v">>, <<"c", "p">>, <<"l", "n">>, <<"c", "h", "m", "o", "d">>,
    <<"c", "h", "o", "w", "n">>, <<"f", "i", "l", "e">>,
    <<"s", "t", "a", "t">>, <<"h", "e", "a", "d">>, <<"t", "a", "i", "l">>,
    <<"g", "r", "e", "p">>, <<"s", "e", "d">>, <<"a", "w", "k">>,
    <<"s", "o", "r", "t">>, <<"u", "n", "i", "q">>, <<"w", "c">>,
    <<"c", "u", "t">>, <<"w", "h", "o", "a", "m", "i">>,
    <<"d", "a", "t", "e">>, <<"u", "p", "t", "i", "m", "e">>,
    <<"u", "n", "a", "m", "e">>, <<"d", "f">>, <<"d", "u">>,
    <<"f", "r", "e", "e">>, <<"t", "o", "p">>, <<"p", "s">>,
    <<"k", "i", "l", "l">>, <<"k", "i", "l", "l", "a", "l", "l">>,
    <<"j", "o", "b", "s">>, <<"b", "g">>, <<"f", "g">>,
    <<"p", "i", "n", "g">>, <<"c", "u", "r", "l">>, <<"w", "g", "e", "t">>,
    <<"s", "s", "h">>, <<"s", "c", "p">>, <<"t", "a", "r">>,
    <<"z", "i", "p">>, <<"u", "n", "z", "i", "p">>,
    <<"c", "l", "e", "a", "r">>, <<"h", "i", "s", "t", "o", "r", "y">>,
    <<"a", "l", "i", "a", "s">>, <<"e", "x", "p", "o", "r", "t">>,
    <<"e", "n", "v">>, <<"w", "h", "i", "c", "h">>,
    <<"w", "h", "e", "r", "e", "i", "s">>, <<"h", "e", "l", "p">>,
    <<"m", "a", "n">>, <<"i", "n", "f", "o">>
  }

\* The cmd_<name> methods CommandProcessor defines.
Handlers ==
  {
    <<"l", "s">>, <<"c", "d">>, <<"p", "w", "d">>,
    <<"m", "k", "d", "i", "r">>, <<"r", "m">>, <<"r", "m", "d", "i", "r">>,
    <<"t", "o", "u", "c", "h">>, <<"c", "a", "t">>, <<"e", "c", "h", "o">>,
    <<"c", "l", "e", "a", "r">>, <<"m", "v">>, <<"c", "p">>, <<"l", "n">>,
    <<"c", "h", "m", "o", "d">>, <<"f", "i", "l", "e">>,
    <<"s", "t", "a", "t">>, <<"h", "e", "a", "d">>, <<"t", "a", "i", "l">>,
    <<"g", "r", "e", "p">>, <<"s", "o", "r", "t">>, <<"u", "n", "i", "q">>,
    <<"w", "c">>, <<"c", "u", "t">>, <<"w", "h", "o", "a", "m", "i">>,
    <<"d", "a", "t", "e">>, <<"u", "p", "t", "i", "m", "e">>,
    <<"u", "n", "a", "m", "e">>, <<"d", "f">>, <<"d", "u">>,
    <<"f", "r", "e", "e">>, <<"t", "o", "p">>, <<"p", "s">>,
    <<"k", "i", "l", "l">>, <<"k", "i", "l", "l", "a", "l", "l">>,
    <<"j", "o", "b", "s">>, <<"b", "g">>, <<"f", "g">>,
    <<"p", "i", "n", "g">>, <<"c", "u", "r", "l">>, <<"w", "g", "e", "t">>,
    <<"s", "s", "h">>, <<"s", "c", "p">>, <<"t", "a", "r">>,
    <<"z", "i", "p">>, <<"u", "n", "z", "i", "p">>,
    <<"h", "i", "s", "t", "o", "r", "y">>, <<"a", "l", "i", "a", "s">>,
    <<"e", "x", "p", "o", "r", "t">>, <<"e", "n", "v">>,
    <<"w", "h", "i", "c", "h">>, <<"w", "h", "e", "r", "e", "i", "s">>,
    <<"h", "e", "l", "p">>, <<"m", "a", "n">>, <<"i", "n", "f", "o">>
  }

\* The handlers this model follows.
Modelled ==
  {W_ls, W_cd, W_pwd, W_mkdir, W_rm, W_rmdir, W_touch, W_echo, W_clear,
   W_mv, W_cp, W_ln, W_uniq}

\* CommandProcessor.terminal_root, in the container layout: /app exists and
\* holds the jail.
terminal_root == <<<<"a", "p", "p">>, <<"t", "e", "r", "m", "i", "n", "a", "l", "_", "r", "o", "o", "t">>>>

\* The subdirectories __init__ makes in a terminal_root it creates.
Subdirs == {W_home, <<"d", "o", "c", "u", "m", "e", "n", "t", "s">>, <<"d", "o", "w", "n", "l", "o", "a", "d", "s">>, <<"p", "r", "o", "j", "e", "c", "t", "s">>}

\* What a handler leaves behind: the filesystem, the session's current_dir,
\* and either the str it returns or (raised) the str of the exception that
\* leaves it.  modelled is FALSE when a library step was not followed.
Ret(f, cur, out) ==
  [fs |-> f, current_dir |-> cur, raised |-> FALSE, out |-> out, modelled |-> TRUE]
Raise(f, cur, msg) ==
  [fs |-> f, current_dir |-> cur, raised |-> TRUE, out |-> msg, modelled |-> TRUE]
NotModelled(f, cur) ==
  [fs |-> f, current_dir |-> cur, raised |-> TRUE, out |-> <<>>, modelled |-> FALSE]

\* A library result r turned into the handler's exception.
RaiseOf(r, cur) == IF r.err = "UNMODELLED" THEN NotModelled(r.fs, cur)
                   ELSE Raise(r.fs, cur, r.msg)

\* The entries cmd_ls prints for the names items of the directory cur.
Formatted(f, cur, items) ==
  LET names == Sorted(items) IN
  [i \in 1..Len(names) |->
     IF is_dir(f, Append(cur, names[i])) THEN Append(names[i], "/") ELSE names[i]]

cmd_ls(args, f, cur) ==
  LET l == os_listdir(f, cur) IN
  IF l.err # "" THEN
    Ret(f, cur, <<"Error listing directory: ">> \o OSErrorStr(l.err, cur))
  ELSE IF l.items = {} THEN Ret(f, cur, <<"(empty directory)">>)
  ELSE Ret(f, cur, JoinStr(<<"\n">>, Formatted(f, cur, l.items)))

\* PurePath.relative_to raising ValueError
NotInSubpath(p, q) ==
  <<"'">> \o Str(p) \o <<"' is not in the subpath of '">> \o Str(q) \o <<"'">>

\* cmd_cd, lines 115-121: the target is resolved, tested by the prefix of its
\* str, assigned, and only then is the reply built with relative_to.
cd_path(target, f, cur) ==
  LET r == resolve(f, PathJoin(cur, target))
      new_path == r.path
  IN
  IF ~r.ok THEN Raise(f, cur, <<"Symlink loop from '">> \o Str(new_path) \o <<"'">>)
  ELSE IF StartsWith(Str(new_path), Str(terminal_root)) /\ exists(f, new_path)
          /\ is_dir(f, new_path) THEN
    IF IsUnder(new_path, terminal_root)
    THEN Ret(f, new_path, <<"Changed to: ">> \o RelStr(new_path, terminal_root))
    ELSE Raise(f, new_path, NotInSubpath(new_path, terminal_root))
  ELSE Ret(f, cur, <<"Directory not found: ">> \o target)

\* cmd_cd without the test of line 108: ".." always steps up.
cmd_cd_unclamped(args, f, cur) ==
  IF args = <<>> THEN
    Ret(f, Append(terminal_root, W_home),
        <<"Changed to home directory: ">> \o Str(Append(terminal_root, W_home)))
  ELSE IF args[1] = DotDot THEN
    Ret(f, Parent(cur), <<"Changed to parent directory: ">> \o Str(Parent(cur)))
  ELSE IF args[1] = W_tilde THEN
    Ret(f, Append(terminal_root, W_home),
        <<"Changed to home directory: ">> \o Str(Append(terminal_root, W_home)))
  ELSE cd_path(args[1], f, cur)

cmd_cd(args, f, cur) ==
  IF args = <<>> THEN
    Ret(f, Append(terminal_root, W_home),
        <<"Changed to home directory: ">> \o Str(Append(terminal_root, W_home)))
  ELSE IF args[1] = DotDot THEN
    LET up == IF cur # terminal_root THEN Parent(cur) ELSE cur IN
    Ret(f, up, <<"Changed to parent directory: ">> \o Str(up))
  ELSE IF args[1] = W_tilde THEN
    Ret(f, Append(terminal_root, W_home),
        <<"Changed to home directory: ">> \o Str(Append(terminal_root, W_home)))
  ELSE cd_path(args[1], f, cur)

cmd_pwd(args, f, cur) ==
  IF IsUnder(cur, terminal_root) THEN Ret(f, cur, RelStr(cur, terminal_root))
  ELSE Raise(f, cur, NotInSubpath(cur, terminal_root))

cmd_mkdir(args, f, cur) ==
  IF args = <<>> THEN Ret(f, cur, <<"mkdir: missing operand">>)
  ELSE
    LET dirname == args[1] IN
    Bind(path_mkdir(f, PathJoin(cur, dirname), TRUE, FALSE), LAMBDA r :
      IF r.err = "" THEN Ret(r.fs, cur, <<"Created directory: ">> \o dirname)
      ELSE IF r.err = "EEXIST" THEN
        Ret(r.fs, cur, <<"Directory already exists: ">> \o dirname)
      ELSE RaiseOf(r, cur))

cmd_rm(args, f, cur) ==
  IF args = <<>> THEN Ret(f, cur, <<"rm: missing operand">>)
  ELSE
    LET filename == args[1]
        target == PathJoin(cur, filename)
    IN
    IF is_file(f, target) THEN
      LET r == os_unlink(f, target) IN
      IF r.err = "" THEN Ret(r.fs, cur, <<"Removed file: ">> \o filename)
      ELSE RaiseOf(r, cur)
    ELSE IF is_dir(f, target) THEN
      Ret(f, cur, <<"rm: ">> \o filename \o <<" is a directory (use rmdir or rm -r)">>)
    ELSE
      Ret(f, cur, <<"rm: cannot remove '">> \o filename
                  \o <<"': No such file or directory">>)

cmd_rmdir(args, f, cur) ==
  IF args = <<>> THEN Ret(f, cur, <<"rmdir: missing operand">>)
  ELSE
    LET dirname == args[1]
        target == PathJoin(cur, dirname)
    IN
    IF is_dir(f, target) THEN
      LET r == os_rmdir(f, target) IN
      IF r.err = "" THEN Ret(r.fs, cur, <<"Removed directory: ">> \o dirname)
      ELSE Ret(f, cur, <<"rmdir: failed to remove '">> \o dirname \o <<"': ">> \o r.msg)
    ELSE
      Ret(f, cur, <<"rmdir: failed to remove '">> \o dirname \o <<"': Not a directory">>)

cmd_touch(args, f, cur) ==
  IF args = <<>> THEN Ret(f, cur, <<"touch: missing operand">>)
  ELSE
    LET filename == args[1]
        r == path_touch(f, PathJoin(cur, filename))
    IN
    IF r.err = "" THEN Ret(r.fs, cur, <<"Created/updated file: ">> \o filename)
    ELSE RaiseOf(r, cur)

cmd_echo(args, f, cur) == Ret(f, cur, JoinStr(<<" ">>, args))

cmd_clear(args, f, cur) == Ret(f, cur, <<"<CLEAR_SCREEN>">>)

cmd_mv(args, f, cur) ==
  IF Len(args) # 2 THEN Ret(f, cur, <<"Usage: mv <src> <dest>">>)
  ELSE
    Bind(shutil_move(f, PathJoin(cur, args[1]), PathJoin(cur, args[2])), LAMBDA r :
      IF r.err = "" THEN
        Ret(r.fs, cur, <<"Moved '">> \o args[1] \o <<"' to '">> \o args[2] \o <<"'">>)
      ELSE RaiseOf(r, cur))

cmd_cp(args, f, cur) ==
  IF Len(args) # 2 THEN Ret(f, cur, <<"Usage: cp <src> <dest>">>)
  ELSE
    LET src == PathJoin(cur, args[1])
        dst == PathJoin(cur, args[2])
    IN
    Bind(IF is_dir(f, src) THEN shutil_copytree(f, src, dst)
         ELSE shutil_copy(f, src, dst), LAMBDA r :
      IF r.err = "" THEN
        Ret(r.fs, cur, <<"Copied '">> \o args[1] \o <<"' to '">> \o args[2] \o <<"'">>)
      ELSE RaiseOf(r, cur))

cmd_ln(args, f, cur) ==
  IF Len(args) < 2 THEN Ret(f, cur, <<"Usage: ln <target> <link_name>">>)
  ELSE
    LET r == os_symlink(f, PathJoin(cur, args[1]), PathJoin(cur, args[2])) IN
    IF r.err = "" THEN
      Ret(r.fs, cur, <<"Created symbolic link: ">> \o args[2] \o <<" -> ">> \o args[1])
    ELSE Ret(f, cur, <<"Error creating link: ">> \o r.msg)

\* str.splitlines(): a line ends at "\n", "\r" or "\r\n" (the other line
\* boundaries of Python are not among the characters of the model); the
\* terminators are dropped and a terminator at the very end opens no line.
RECURSIVE SplitLines(_, _)
SplitLines(s, cur) ==
  IF s = <<>> THEN (IF cur = <<>> THEN <<>> ELSE <<cur>>)
  ELSE IF Head(s) = "\r" /\ Len(s) > 1 /\ s[2] = "\n"
    THEN <<cur>> \o SplitLines(Tail(Tail(s)), <<>>)
  ELSE IF Head(s) \in {"\n", "\r"} THEN <<cur>> \o SplitLines(Tail(s), <<>>)
  ELSE SplitLines(Tail(s), Append(cur, Head(s)))

splitlines(s) == SplitLines(s, <<>>)

\* cmd_uniq with a membership test in place of the test of line 309: a line
\* is kept when unique_lines does not hold it yet.
RECURSIVE uniq_loop_seen(_, _, _)
uniq_loop_seen(lines, prev_line, unique_lines) ==
  IF lines = <<>> THEN unique_lines
  ELSE IF \A i \in 1..Len(unique_lines) : unique_lines[i] # Head(lines)
    THEN uniq_loop_seen(Tail(lines), <<Head(lines)>>, Append(unique_lines, Head(lines)))
  ELSE uniq_loop_seen(Tail(lines), prev_line, unique_lines)

\* cmd_uniq, lines 306-311: the loop over lines.  prev_line is <<>> for None
\* and <<l>> for the line l, so that None differs from the empty line.
RECURSIVE uniq_loop(_, _, _)
uniq_loop(lines, prev_line, unique_lines) ==
  IF lines = <<>> THEN unique_lines
  ELSE IF <<Head(lines)>> # prev_line
    THEN uniq_loop(Tail(lines), <<Head(lines)>>, Append(unique_lines, Head(lines)))
  ELSE uniq_loop(Tail(lines), prev_line, unique_lines)

cmd_uniq(args, f, cur) ==
  IF args = <<>> THEN Ret(f, cur, <<"Usage: uniq <file>">>)
  ELSE
    LET file == PathJoin(cur, args[1]) IN
    IF is_file(f, file) THEN
      Ret(f, cur, JoinStr(<<"\n">>,
                          uniq_loop(splitlines(read_text(f, file)), <<>>, <<>>)))
    ELSE Ret(f, cur, <<"No such file: ">> \o args[1])

\* getattr(self, f"cmd_{command}")(args)
handler_method(command, args, f, cur) ==
  CASE command = W_ls -> cmd_ls(args, f, cur)
    [] command = W_cd -> cmd_cd(args, f, cur)
    [] command = W_pwd -> cmd_pwd(args, f, cur)
    [] command = W_mkdir -> cmd_mkdir(args, f, cur)
    [] command = W_rm -> cmd_rm(args, f, cur)
    [] command = W_rmdir -> cmd_rmdir(args, f, cur)
    [] command = W_touch -> cmd_touch(args, f, cur)
    [] command = W_echo -> cmd_echo(args, f, cur)
    [] command = W_clear -> cmd_clear(args, f, cur)
    [] command = W_mv -> cmd_mv(args, f, cur)
    [] command = W_cp -> cmd_cp(args, f, cur)
    [] command = W_ln -> cmd_ln(args, f, cur)
    [] command = W_uniq -> cmd_uniq(args, f, cur)
    [] OTHER -> NotModelled(f, cur)

\* What one call of execute leaves behind: outcome is "return" (output is the
\* str returned) or "raise" (output is the str of the exception that leaves
\* execute); called is the handler that ran, <<>> when none did.
Result(f, cur, outcome, output, called, modelled) ==
  [fs |-> f, current_dir |-> cur, outcome |-> outcome, output |-> output,
   called |-> called, modelled |-> modelled]

\* execute_parts without the lower() of line 55
execute_parts_nofold(parts, f, cur) ==
  LET command == parts[1]
      args == Tail(parts)
  IN
  IF command \notin COMMANDS THEN
    Result(f, cur, "return",
           <<"Command not found: ">> \o command
           \o <<". Type 'help' for available commands.">>, <<>>, TRUE)
  ELSE IF command \in Handlers THEN
    Bind(handler_method(command, args, f, cur), LAMBDA h :
      IF h.raised THEN
        Result(h.fs, h.current_dir, "return",
               <<"Error running ">> \o command \o <<": ">> \o h.out,
               command, h.modelled)
      ELSE Result(h.fs, h.current_dir, "return", h.out, command, TRUE))
  ELSE
    Result(f, cur, "return",
           <<"Handler for '">> \o command \o <<"' not implemented yet.">>,
           <<>>, TRUE)

\* execute, lines 55-72, on the tokens of the line
execute_parts(parts, f, cur) ==
  LET command == Lower(parts[1])
      args == Tail(parts)
  IN
  IF command \notin COMMANDS THEN
    Result(f, cur, "return",
           <<"Command not found: ">> \o command
           \o <<". Type 'help' for available commands.">>, <<>>, TRUE)
  ELSE IF command \in Handlers THEN
    Bind(handler_method(command, args, f, cur), LAMBDA h :
      IF h.raised THEN
        Result(h.fs, h.current_dir, "return",
               <<"Error running ">> \o command \o <<": ">> \o h.out,
               command, h.modelled)
      ELSE Result(h.fs, h.current_dir, "return", h.out, command, TRUE))
  ELSE
    Result(f, cur, "return",
           <<"Handler for '">> \o command \o <<"' not implemented yet.">>,
           <<>>, TRUE)

\* CommandProcessor.execute
execute(line, f, cur) ==
  IF line = <<>> \/ Strip(line) = <<>> THEN
    Result(f, cur, "return", <<>>, <<>>, TRUE)
  ELSE
    Bind(shlex_split(Strip(line)), LAMBDA lexed :
      IF ~lexed.ok THEN Result(f, cur, "raise", lexed.msg, <<>>, TRUE)
      ELSE IF lexed.tokens = <<>> THEN Result(f, cur, "return", <<>>, <<>>, TRUE)
      ELSE execute_parts(lexed.tokens, f, cur))

\* ------------------------------------------------------------ the session
VARIABLES
  fs,           \* the host filesystem
  current_dir,  \* CommandProcessor.current_dir of the one processor of main.py
  cmd,          \* the command line of the last call of execute
  outcome,      \* "init", or how that call ended: "return" or "raise"
  output,       \* the str it returned, or the str of the exception
  called,       \* the handler it ran, <<>> when it ran none
  before,       \* history: current_dir when the last call of execute began
  pc,           \* per request thread: where it stands inside cmd_cd
  tmp           \* per request thread: the path it holds in a local

vars == <<fs, current_dir, cmd, outcome, output, called, before, pc, tmp>>

Threads == 1..NumThreads

\* CommandProcessor.__init__ where /app exists and /app/terminal_root does
\* not: the jail and its four subdirectories are made, current_dir is the
\* jail.
InitFs ==
  LET dirs == {<<>>, Parent(terminal_root), terminal_root}
              \cup {Append(terminal_root, d) : d \in Subdirs}
  IN [q \in dirs |-> DirNode]

Init ==
  /\ fs = InitFs
  /\ current_dir = terminal_root
  /\ cmd = <<>>
  /\ outcome = "init"
  /\ output = <<>>
  /\ called = <<>>
  /\ before = terminal_root
  /\ pc = [t \in Threads |-> "idle"]
  /\ tmp = [t \in Threads |-> <<>>]

\* The filesystems the model keeps: at most MaxNew nodes that were not there
\* after construction.
InBounds(f) == Cardinality(DOMAIN f \ DOMAIN InitFs) <= MaxNew

\* One request served alone: run_command calls execute(line) on the session.
Dispatch(line) ==
  \E r \in {execute(line, fs, current_dir)} :
    /\ r.modelled
    /\ InBounds(r.fs)
    /\ fs' = r.fs
    /\ current_dir' = r.current_dir
    /\ cmd' = line
    /\ outcome' = r.outcome
    /\ output' = r.output
    /\ called' = r.called
    /\ before' = current_dir
    /\ UNCHANGED <<pc, tmp>>

\* The arguments of the command lines.
A_a == <<"a">>
A_sibling == <<".", ".", "/", "t", "e", "r", "m", "i", "n", "a", "l", "_", "r", "o", "o", "t", "x">>
A_deep == <<"a", "/", ".", ".", "/", ".", ".", "/", ".", ".", "/", ".", ".">>
A_upa == <<".", ".", "/", "a">>
A_up == <<".", ".", "/", ".", ".">>

Line1(w, a) == w \o <<" ">> \o a
Line2(w, a, b) == w \o <<" ">> \o a \o <<" ">> \o b

CdArgs == {DotDot, A_a, A_sibling, A_deep}
MkdirArgs == {A_a, A_sibling}
TouchArgs == {A_upa}
RmArgs == {A_a}
RmdirArgs == {A_a, A_upa, W_home}
MvArgs == {<<A_a, W_home>>}
CpArgs == {<<A_a, W_home>>}
LnArgs == {<<A_up, A_a>>}

\* No request is part-way through cmd_cd on another thread.
Alone == \A t \in Threads : pc[t] = "idle"

Cd == Alone /\ (Dispatch(W_cd) \/ \E a \in CdArgs : Dispatch(Line1(W_cd, a)))
Ls == Alone /\ Dispatch(W_ls)
Pwd == Alone /\ Dispatch(W_pwd)
Mkdir == Alone /\ \E a \in MkdirArgs : Dispatch(Line1(W_mkdir, a))
Touch == Alone /\ \E a \in TouchArgs : Dispatch(Line1(W_touch, a))
Rm == Alone /\ \E a \in RmArgs : Dispatch(Line1(W_rm, a))
Rmdir == Alone /\ \E a \in RmdirArgs : Dispatch(Line1(W_rmdir, a))
Mv == Alone /\ \E p \in MvArgs : Dispatch(Line2(W_mv, p[1], p[2]))
Cp == Alone /\ \E p \in CpArgs : Dispatch(Line2(W_cp, p[1], p[2]))
Ln == Alone /\ \E p \in LnArgs : Dispatch(Line2(W_ln, p[1], p[2]))

Next == Cd \/ Ls \/ Pwd \/ Mkdir \/ Touch \/ Rm \/ Rmdir \/ Mv \/ Cp \/ Ln

\* A session of file commands, one request at a time.
Spec == Init /\ [][Next]_vars

\* ----------------------------------------------------- the dispatcher alone
\* Lines for the tokenizer and the registry lookup: blank, unknown names,
\* names in capitals, unbalanced quotes, quoted words,
\* a registered name without a handler, handlers given no operand.
L_xyzzy == <<"x", "y", "z", "z", "y">>
L_XyZZy == <<"X", "y", "Z", "Z", "y", " ", "a">>
L_sq == <<"c", "d", " ", "'", "a">>
L_dq == <<"m", "k", "d", "i", "r", " ", "\"", "a">>
L_CD == <<" ", "C", "D", " ", " ", ".", ".", " ">>

BlankLines == {<<>>, <<" ", " ", " ">>}
UnknownLines == {L_xyzzy, L_XyZZy, <<"L", "S", "X">>, <<"x", "y", "z", "z", "y", " ", ".", ".">>}
QuoteLines == {L_sq, L_dq, <<"e", "c", "h", "o", " ", "'", "a", " ", " ", "b", "'", " ", "\"", "c", "\"">>, <<"'", "'">>}
PlainLines ==
  { <<"e", "c", "h", "o", " ", "a">>, W_clear, W_pwd, W_ls, W_mkdir, W_rm, W_rmdir, W_touch, W_mv, W_cp, W_ln,
    <<"s", "e", "d">>, <<"a", "w", "k", " ", "a">> }
MoveLines == {W_cd, L_CD, Line1(W_cd, W_tilde), Line1(W_cd, A_a), Line1(W_mkdir, A_a), <<"c", "d", " ", "'", "h", "o", "m", "e", "'">>}

Blank == Alone /\ \E l \in BlankLines : Dispatch(l)
Unknown == Alone /\ \E l \in UnknownLines : Dispatch(l)
Quotes == Alone /\ \E l \in QuoteLines : Dispatch(l)
Plain == Alone /\ \E l \in PlainLines : Dispatch(l)
Move == Alone /\ \E l \in MoveLines : Dispatch(l)

NextDispatch == Blank \/ Unknown \/ Quotes \/ Plain \/ Move

SpecDispatch == Init /\ [][NextDispatch]_vars

\* ------------------------------------------------------- uniq on a file
\* The jail as constructed plus one regular file f in it, holding any text
\* of at most MaxText characters over "a", "b" and the newline, or one of
\* two texts with carriage returns; the session asks for uniq.
A_f == <<"f">>
TextChars == {"a", "b", "\n"}
Texts ==
  UNION {[1..n -> TextChars] : n \in 0..MaxText}
    \cup {<<"a", "\r", "\n", "a", "\r", "b">>, <<"a", "\r", "\r", "\n">>}

InitUniq ==
  /\ \E text \in Texts : fs = Put(InitFs, Append(terminal_root, A_f), FileWith(text))
  /\ current_dir = terminal_root
  /\ cmd = <<>>
  /\ outcome = "init"
  /\ output = <<>>
  /\ called = <<>>
  /\ before = terminal_root
  /\ pc = [t \in Threads |-> "idle"]
  /\ tmp = [t \in Threads |-> <<>>]

Uniq == Alone /\ Dispatch(Line1(W_uniq, A_f))
UniqNoFile ==
  Alone /\ (Dispatch(W_uniq) \/ \E a \in {A_a, W_home} : Dispatch(Line1(W_uniq, a)))

NextUniq == Uniq \/ UniqNoFile

SpecUniq == InitUniq /\ [][NextUniq]_vars

\* ------------------------------------------------ requests served together
\* main.py keeps one CommandProcessor for the process and run_command is a
\* plain def, which the server runs on its pool of threads with no lock: the
\* reads and writes of self.current_dir inside cmd_cd are separate steps that
\* another request may come between.  Each thread serves "cd", "cd .." or
\* "cd home", one after the other; the filesystem is left as constructed.
At(t, label) == pc[t] = label
Goto(t, label) == pc' = [pc EXCEPT ![t] = label]
Frame == UNCHANGED <<fs, cmd, outcome, output, called, before>>

\* run_command picks up a request
ConcStart(t) ==
  /\ At(t, "idle")
  /\ \E first \in {"home_write", "up_check", "path_resolve"} : Goto(t, first)
  /\ UNCHANGED <<current_dir, tmp>>
  /\ Frame

\* line 102: self.current_dir = self.terminal_root / "home"
CdHomeWrite(t) ==
  /\ At(t, "home_write")
  /\ current_dir' = Append(terminal_root, W_home)
  /\ Goto(t, "return")
  /\ UNCHANGED tmp
  /\ Frame

\* line 108: if self.current_dir != self.terminal_root
CdUpCheck(t) ==
  /\ At(t, "up_check")
  /\ IF current_dir # terminal_root THEN Goto(t, "up_read") ELSE Goto(t, "return")
  /\ UNCHANGED <<current_dir, tmp>>
  /\ Frame

\* line 109, right-hand side: self.current_dir.parent
CdUpRead(t) ==
  /\ At(t, "up_read")
  /\ tmp' = [tmp EXCEPT ![t] = Parent(current_dir)]
  /\ Goto(t, "up_write")
  /\ UNCHANGED current_dir
  /\ Frame

\* line 109, the assignment
CdUpWrite(t) ==
  /\ At(t, "up_write")
  /\ current_dir' = tmp[t]
  /\ Goto(t, "return")
  /\ UNCHANGED tmp
  /\ Frame

\* line 115: new_path = (self.current_dir / target).resolve()
CdPathResolve(t) ==
  /\ At(t, "path_resolve")
  /\ tmp' = [tmp EXCEPT ![t] = resolve(fs, PathJoin(current_dir, W_home)).path]
  /\ Goto(t, "path_test")
  /\ UNCHANGED current_dir
  /\ Frame

\* line 117: the test of new_path
CdPathTest(t) ==
  /\ At(t, "path_test")
  /\ IF StartsWith(Str(tmp[t]), Str(terminal_root)) /\ exists(fs, tmp[t])
        /\ is_dir(fs, tmp[t])
     THEN Goto(t, "path_write") ELSE Goto(t, "return")
  /\ UNCHANGED <<current_dir, tmp>>
  /\ Frame

\* line 118: self.current_dir = new_path
CdPathWrite(t) ==
  /\ At(t, "path_write")
  /\ current_dir' = tmp[t]
  /\ Goto(t, "return")
  /\ UNCHANGED tmp
  /\ Frame

\* lines 103, 110, 119, 121: the reply is built and the request ends
CdReturn(t) ==
  /\ At(t, "return")
  /\ tmp' = [tmp EXCEPT ![t] = <<>>]
  /\ Goto(t, "idle")
  /\ UNCHANGED current_dir
  /\ Frame

NextConc ==
  \E t \in Threads :
    \/ ConcStart(t)
    \/ CdHomeWrite(t)
    \/ CdUpCheck(t)
    \/ CdUpRead(t)
    \/ CdUpWrite(t)
    \/ CdPathResolve(t)
    \/ CdPathTest(t)
    \/ CdPathWrite(t)
    \/ CdReturn(t)

SpecConc == Init /\ [][NextConc]_vars

\* ------------------------------------------------------------- properties
\* The containment test as the claims word it: p is the jail or a path
\* below it.
InJail(p) == p = terminal_root \/ StartsWith(Str(p), Str(terminal_root) \o <<"/">>)

\* What a listing of the current directory shows: the lines of cmd_ls
\* without operands, none when it reports an empty directory or a failure.
LsShown(f, cur) ==
  LET out == cmd_ls(<<>>, f, cur).out
      lines == Split(out, "\n")
  IN
  IF Head(out) \in {"(empty directory)", "Error listing directory: "} THEN {}
  ELSE {lines[i] : i \in 1..Len(lines)}

\* The ".." components of an operand.
NumDotDot(a) == Len(SelectSeq(Parts(a), LAMBDA c : c = DotDot))

\* current_dir counted in components below the jail.
Depth(cur) == Len(cur) - Len(terminal_root)

\* C1: after construction and after every call of execute, current_dir is
\* the jail or a path below it.
C1_Containment == InJail(current_dir)

\* C2: no call of execute ends by raising, whatever the line: a line with an
\* unbalanced quote is answered with a text.
C2_ExecuteNeverRaises == outcome # "raise"

\* C3: the commands that create, remove, move, copy and link leave every
\* path outside the jail as it was after construction: none appears, none
\* disappears, none changes.
C3_OutsideUntouched ==
  \A q \in DOMAIN fs \cup DOMAIN InitFs :
    ~InJail(q) => q \in DOMAIN fs /\ q \in DOMAIN InitFs /\ fs[q] = InitFs[q]

\* C4: a call that is answered "Error running <command>: ..." leaves
\* current_dir as it was before the call.
C4_FaultKeepsDir ==
  (outcome = "return" /\ output # <<>> /\ Head(output) = "Error running ")
    => current_dir = before

\* C5: "cd .." given while current_dir is the jail returns normally, answers
\* with the jail as the parent directory, and changes neither current_dir
\* nor the filesystem.
C5_CdUpAtRoot ==
  [][(cmd' = Line1(W_cd, DotDot) /\ current_dir = terminal_root)
       => /\ current_dir' = terminal_root
          /\ outcome' = "return"
          /\ output' = <<"Changed to parent directory: ">> \o Str(terminal_root)
          /\ called' = W_cd
          /\ fs' = fs]_vars

\* C5, its case: "cd .." was served at the jail and left the session there.
C5_Witness ==
  /\ cmd = Line1(W_cd, DotDot)
  /\ before = terminal_root
  /\ current_dir = terminal_root
  /\ outcome = "return"

\* C6: "cd p", p other than the bare "..", with more ".." components in p
\* than current_dir is deep below the jail, is answered
\* "Directory not found: p" and leaves current_dir unchanged.
C6_TraversalRejected ==
  [][\A a \in CdArgs \ {DotDot} :
       (cmd' = Line1(W_cd, a) /\ InJail(current_dir)
          /\ NumDotDot(a) > Depth(current_dir))
       => /\ current_dir' = current_dir
          /\ output' = <<"Directory not found: ">> \o a]_vars

\* C7: with requests served together, current_dir is never a path outside
\* the jail; two "cd .." in flight at once never take it above the jail.
C7_ConcurrentCdContained == IsUnder(current_dir, terminal_root)

\* C8: "mkdir a" where the current directory has no entry a makes its listing
\* show "a/"; "rmdir a" given right after a "mkdir a" that created it takes
\* "a/" and "a" out of the listing and leaves every other entry.
C8_MkdirRmdirRoundTrip ==
  [][/\ (cmd' = Line1(W_mkdir, A_a) /\ A_a \notin os_listdir(fs, current_dir).items)
         => Append(A_a, "/") \in LsShown(fs', current_dir')
     /\ (cmd = Line1(W_mkdir, A_a) /\ output = <<"Created directory: ">> \o A_a
           /\ cmd' = Line1(W_rmdir, A_a))
         => LsShown(fs', current_dir') = LsShown(fs, current_dir) \ {Append(A_a, "/")}
    ]_vars

\* C9: "rmdir d" on a directory that has an entry removes nothing and is
\* answered "rmdir: failed to remove 'd': <reason>"; whenever rmdir answers
\* "Removed directory: d", what went was one directory without entries.
C9_RmdirOnlyEmpty ==
  [][\A d \in RmdirArgs :
       cmd' = Line1(W_rmdir, d) =>
         LET target == PathJoin(current_dir, d)
             failed == <<"rmdir: failed to remove '">> \o d \o <<"': ">>
         IN
         /\ (is_dir(fs, target) /\ Children(fs, Stat(fs, target).at) # {})
              => /\ fs' = fs
                 /\ Len(output') > Len(failed)
                 /\ SubSeq(output', 1, Len(failed)) = failed
         /\ output' = <<"Removed directory: ">> \o d
              => \E q \in DOMAIN fs :
                   /\ fs[q].kind = "dir"
                   /\ Children(fs, q) = {}
                   /\ DOMAIN fs' = DOMAIN fs \ {q}
                   /\ \A o \in DOMAIN fs' : fs'[o] = fs[o]]_vars

\* C9, its case: "rmdir home" was refused while home had an entry.
C9_Witness ==
  /\ cmd = Line1(W_rmdir, W_home)
  /\ current_dir = terminal_root
  /\ Children(fs, Append(terminal_root, W_home)) # {}
  /\ Head(output) = "rmdir: failed to remove '"

\* C10: a line whose first token, in lower case, is not a registered command
\* is answered "Command not found: <command>. Type 'help' for available
\* commands." with the command in lower case; no handler runs, and
\* current_dir and the filesystem stay as they were.
C10_UnknownCommand ==
  [][\A l \in BlankLines \cup UnknownLines \cup QuoteLines \cup PlainLines \cup MoveLines :
       LET lexed == shlex_split(Strip(l)) IN
       (cmd' = l /\ lexed.ok /\ lexed.tokens # <<>>
          /\ Lower(lexed.tokens[1]) \notin COMMANDS)
       => /\ outcome' = "return"
          /\ output' = <<"Command not found: ">> \o Lower(lexed.tokens[1])
                       \o <<". Type 'help' for available commands.">>
          /\ called' = <<>>
          /\ current_dir' = current_dir
          /\ fs' = fs]_vars

\* C10, its case: a name in capitals that no command has was looked up in
\* lower case and refused.
C10_Witness ==
  /\ cmd = L_XyZZy
  /\ outcome = "return"
  /\ called = <<>>
  /\ Head(output) = "Command not found: "

\* The lines of L that start a run of equal consecutive lines, in order.
RECURSIVE RunHeads(_, _)
RunHeads(L, i) ==
  IF i > Len(L) THEN <<>>
  ELSE IF i = 1 \/ L[i] # L[i - 1] THEN <<L[i]>> \o RunHeads(L, i + 1)
  ELSE RunHeads(L, i + 1)

\* C11: uniq on a file whose lines are L returns, joined by newlines, L with
\* each maximal run of equal consecutive lines replaced by one copy, in
\* order; no two consecutive lines of the output are equal, and a line that
\* comes back after a different one is kept again.
C11_UniqAdjacentOnly ==
  (cmd = Line1(W_uniq, A_f) /\ outcome = "return") =>
    LET L == splitlines(read_text(fs, Append(terminal_root, A_f)))
        out == IF L = <<>> THEN <<>> ELSE Split(output, "\n")
    IN
    /\ called = W_uniq
    /\ L = <<>> => output = <<>>
    /\ out = RunHeads(L, 1)
    /\ \A i \in 2..Len(out) : out[i] # out[i - 1]

\* C11, its case: uniq answered "a", "b", "a" for the lines "a", "a", "b", "a".
C11_Witness ==
  /\ cmd = Line1(W_uniq, A_f)
  /\ read_text(fs, Append(terminal_root, A_f)) = <<"a", "\n", "a", "\n", "b", "\n", "a">>
  /\ output = <<"a", "\n", "b", "\n", "a">>

\* C12: current_dir always names a directory that exists, whatever commands
\* were served: "cd" and "cd ~" go to home only when it is there, and rmdir
\* leaves the directory current_dir names, and those above it, in place.
C12_CurrentDirExists == is_dir(fs, current_dir)

====
